---- MODULE Spec2Model ----
(***************************************************************************)
(* The webpack configuration factory of the repository                     *)
(* (src/unnamed/part_000, the ejected create-react-app webpack.config.js). *)
(*                                                                         *)
(* The module reads the process environment once when it is loaded (its    *)
(* top-level constants), and exports a function of webpackEnv that reads   *)
(* a few more facts on every call and returns the configuration object.    *)
(* The bundler then looks every resource path up in module.rules' oneOf    *)
(* list.                                                                   *)
(*                                                                         *)
(* Representation of JavaScript values:                                    *)
(*   - a string the code inspects (startsWith, parseInt, a regular         *)
(*     expression) is a sequence of tokens, each token a piece of text;    *)
(*   - undefined is the one-token sequence Undefined;                      *)
(*   - a number is a record [nan, val], NaN being [nan |-> TRUE];          *)
(*   - the value false left in an array literal by `cond && x` is the      *)
(*     record Falsy, which filter(Boolean) drops;                          *)
(*   - false in a slot that otherwise holds a string name is "false".      *)
(***************************************************************************)
EXTENDS Integers, Sequences, FiniteSets, TLC

VARIABLES
    env,          \* the process: process.env, process.argv, the file system, ./paths, ./env
    consts,       \* the module's top-level constants, set when the module is loaded
    webpackEnv,   \* the argument of the last call of the exported function
    config,       \* the object the last call returned
    path,         \* the resource path the bundler looked up last
    selected,     \* the index in oneOf of the rule that lookup selected, 0 for none
    styleCall,    \* the last call of getStyleLoaders: its arguments and its result
    lastCall      \* what the last call of the exported function ran with: the
                  \* process state and the module constants at that moment

vars == <<env, consts, webpackEnv, config, path, selected, styleCall, lastCall>>

----------------------------------------------------------------------------
(* Strings as token sequences *)

Undefined == <<"undefined">>

StrFalse == <<"f", "a", "l", "s", "e">>

StrTrue == <<"t", "r", "u", "e">>

StartsWith(s, p) ==
    /\ Len(p) <= Len(s)
    /\ SubSeq(s, 1, Len(p)) = p

EndsWith(s, p) ==
    /\ Len(p) <= Len(s)
    /\ SubSeq(s, Len(s) - Len(p) + 1, Len(s)) = p

Contains(s, p) ==
    \E i \in 1..(Len(s) - Len(p) + 1) : SubSeq(s, i, i + Len(p) - 1) = p

(* JavaScript numbers, as far as parseInt produces them *)
Num(n) == [nan |-> FALSE, val |-> n]

NaN == [nan |-> TRUE, val |-> 0]

(* The value of a digit character, 99 for a character that is no digit. *)
DigitValue(c) ==
    CASE c = "0" -> 0 [] c = "1" -> 1 [] c = "2" -> 2 [] c = "3" -> 3
      [] c = "4" -> 4 [] c = "5" -> 5 [] c = "6" -> 6 [] c = "7" -> 7
      [] c = "8" -> 8 [] c = "9" -> 9
      [] c \in {"a", "A"} -> 10 [] c \in {"b", "B"} -> 11
      [] c \in {"c", "C"} -> 12 [] c \in {"d", "D"} -> 13
      [] c \in {"e", "E"} -> 14 [] c \in {"f", "F"} -> 15
      [] OTHER -> 99

RECURSIVE TrimStart(_)
TrimStart(s) ==
    IF s # <<>> /\ Head(s) = " " THEN TrimStart(Tail(s)) ELSE s

(* The longest prefix of s made of digits of the radix. *)
RECURSIVE DigitPrefix(_, _)
DigitPrefix(s, radix) ==
    IF s # <<>> /\ DigitValue(Head(s)) < radix
    THEN <<Head(s)>> \o DigitPrefix(Tail(s), radix)
    ELSE <<>>

RECURSIVE DigitsValue(_, _, _)
DigitsValue(s, radix, acc) ==
    IF s = <<>> THEN acc
    ELSE DigitsValue(Tail(s), radix, acc * radix + DigitValue(Head(s)))

(* parseInt(string) with no radix argument (ECMAScript 18.2.5): leading    *)
(* white space is skipped, a sign is read, a 0x prefix selects radix 16,   *)
(* the digits up to the first other character are the number, and no       *)
(* digit at all gives NaN.                                                 *)
parseInt(string) ==
    LET s0     == TrimStart(string)
        signed == s0 # <<>> /\ Head(s0) \in {"-", "+"}
        sign   == IF s0 # <<>> /\ Head(s0) = "-" THEN -1 ELSE 1
        s1     == IF signed THEN Tail(s0) ELSE s0
        hex    == Len(s1) >= 2 /\ s1[1] = "0" /\ s1[2] \in {"x", "X"}
        radix  == IF hex THEN 16 ELSE 10
        s2     == IF hex THEN SubSeq(s1, 3, Len(s1)) ELSE s1
        digits == DigitPrefix(s2, radix)
    IN  IF digits = <<>> THEN NaN
        ELSE Num(sign * DigitsValue(digits, radix, 0))

(* `a || b` on strings: undefined and the empty string are falsy. *)
OrElse(a, b) == IF a = Undefined \/ a = <<>> THEN b ELSE a

(* `cond && x` in an array literal, and the filter(Boolean) that follows. *)
Falsy == [falsy |-> TRUE]

AndThen(cond, x) == IF cond THEN x ELSE Falsy

Boolean(x) == x # Falsy

FilterBoolean(list) == SelectSeq(list, Boolean)

----------------------------------------------------------------------------
(* The process the module runs in *)

EnvValues == {Undefined, StrFalse, StrTrue}

LimitValues ==
    { Undefined,
      <<>>,
      <<"5", "0", "0", "0">>,
      <<"a", "b", "c">>,
      <<"-", "1">> }

PublicPaths == { <<"/">>, <<".", "/">> }

(* Every process state the module can be loaded in. FAST_REFRESH is the    *)
(* value ./env puts in env.raw.FAST_REFRESH; profile is whether            *)
(* process.argv holds --profile; the three ...Exists / ...Resolvable       *)
(* fields are the answers of fs.existsSync and require.resolve;            *)
(* requiredFilesExist is whether the files behind paths.appHtml and        *)
(* paths.appIndexJs, which the configuration names, are on the disk.       *)
Envs ==
    [ GENERATE_SOURCEMAP        : EnvValues,
      INLINE_RUNTIME_CHUNK      : EnvValues,
      IMAGE_INLINE_SIZE_LIMIT   : LimitValues,
      DISABLE_NEW_JSX_TRANSFORM : {Undefined, StrTrue},
      FAST_REFRESH              : BOOLEAN,
      profile                   : BOOLEAN,
      appTsConfigExists         : BOOLEAN,
      swSrcExists               : BOOLEAN,
      jsxRuntimeResolvable      : BOOLEAN,
      requiredFilesExist        : BOOLEAN,
      publicUrlOrPath           : PublicPaths ]

WebpackEnvs == {"development", "production", "test"}

----------------------------------------------------------------------------
(* The module's top-level constants *)

DefaultLimit == <<"1", "0", "0", "0", "0">>

shouldUseSourceMap(e) == e.GENERATE_SOURCEMAP # StrFalse

shouldInlineRuntimeChunk(e) == e.INLINE_RUNTIME_CHUNK # StrFalse

imageInlineSizeLimit(e) == parseInt(OrElse(e.IMAGE_INLINE_SIZE_LIMIT, DefaultLimit))

useTypeScript(e) == e.appTsConfigExists

hasJsxRuntime(e) ==
    IF e.DISABLE_NEW_JSX_TRANSFORM = StrTrue THEN FALSE
    ELSE e.jsxRuntimeResolvable

NotLoaded == [loaded |-> FALSE]

ModuleConstants(e) ==
    [ loaded                   |-> TRUE,
      shouldUseSourceMap       |-> shouldUseSourceMap(e),
      shouldInlineRuntimeChunk |-> shouldInlineRuntimeChunk(e),
      imageInlineSizeLimit     |-> imageInlineSizeLimit(e),
      useTypeScript            |-> useTypeScript(e),
      hasJsxRuntime            |-> hasJsxRuntime(e) ]

cssRegex == [kind |-> "RegExp", end |-> TRUE, alts |-> { <<".", "css">> }]

cssModuleRegex ==
    [kind |-> "RegExp", end |-> TRUE, alts |-> { <<".", "module", ".", "css">> }]

sassRegex ==
    [kind |-> "RegExp", end |-> TRUE, alts |-> { <<".", "scss">>, <<".", "sass">> }]

sassModuleRegex ==
    [kind |-> "RegExp", end |-> TRUE,
     alts |-> { <<".", "module", ".", "scss">>, <<".", "module", ".", "sass">> }]

----------------------------------------------------------------------------
(* The exported function: module.exports = function (webpackEnv)           *)
(* Its locals are operators of webpackEnv (w); the module constants are    *)
(* read from consts and the per-call facts from env.                       *)

isEnvDevelopment(w) == w = "development"

isEnvProduction(w) == w = "production"

isEnvProductionProfile(w) == isEnvProduction(w) /\ env.profile

shouldUseReactRefresh == env.FAST_REFRESH

(* A name argument is falsy when it was not given or is the empty string. *)
NoPreProcessor == "undefined"

Truthy(name) == name \notin {NoPreProcessor, ""}

EmptyObject == <<>>

StyleSourceMap(w) ==
    IF isEnvProduction(w) THEN consts.shouldUseSourceMap ELSE isEnvDevelopment(w)

(* The array literal of getStyleLoaders, before filter(Boolean). *)
styleLoaderEntries(w, cssOptions) ==
    << AndThen(isEnvDevelopment(w), [loader |-> "style-loader"]),
       AndThen(isEnvProduction(w),
               [ loader  |-> "MiniCssExtractPlugin.loader",
                 options |-> IF StartsWith(env.publicUrlOrPath, <<".">>)
                             THEN [publicPath |-> "../../"]
                             ELSE EmptyObject ]),
       [ loader |-> "css-loader", options |-> cssOptions ],
       [ loader  |-> "postcss-loader",
         options |-> [ ident     |-> "postcss",
                       plugins   |-> << "postcss-flexbugs-fixes",
                                        "postcss-preset-env",
                                        "postcss-normalize" >>,
                       sourceMap |-> StyleSourceMap(w) ] ] >>

(* Mutant: the preprocessor's source map follows the mode like the others. *)
preProcessorLoaders_SourceMapByMode(w, preProcessor) ==
    << [ loader  |-> "resolve-url-loader",
         options |-> [ sourceMap |-> StyleSourceMap(w),
                       root      |-> "paths.appSrc" ] ],
       [ loader  |-> preProcessor,
         options |-> [ sourceMap |-> StyleSourceMap(w) ] ] >>

(* The two loaders pushed when a preprocessor is given. *)
preProcessorLoaders(w, preProcessor) ==
    << [ loader  |-> "resolve-url-loader",
         options |-> [ sourceMap |-> StyleSourceMap(w),
                       root      |-> "paths.appSrc" ] ],
       [ loader  |-> preProcessor,
         options |-> [ sourceMap |-> TRUE ] ] >>

(* Mutant: the array literal is returned without filter(Boolean). *)
getStyleLoaders_Unfiltered(w, cssOptions, preProcessor) ==
    LET loaders == styleLoaderEntries(w, cssOptions)
    IN  IF Truthy(preProcessor)
        THEN loaders \o preProcessorLoaders(w, preProcessor)
        ELSE loaders

(* Mutant: the preprocessor is pushed before resolve-url-loader. *)
getStyleLoaders_PreProcessorFirst(w, cssOptions, preProcessor) ==
    LET loaders == FilterBoolean(styleLoaderEntries(w, cssOptions))
        pushed  == preProcessorLoaders(w, preProcessor)
    IN  IF Truthy(preProcessor)
        THEN loaders \o << pushed[2], pushed[1] >>
        ELSE loaders

getStyleLoaders(w, cssOptions, preProcessor) ==
    LET loaders == FilterBoolean(styleLoaderEntries(w, cssOptions))
    IN  IF Truthy(preProcessor)
        THEN loaders \o preProcessorLoaders(w, preProcessor)
        ELSE loaders

----------------------------------------------------------------------------
(* module.rules: the oneOf list. A rule's test, include and exclude are    *)
(* conditions: a regular expression, a string (a path prefix) or an array  *)
(* of them; here always a sequence, a single condition being a sequence    *)
(* of one. A regular expression is the set of token sequences it matches,  *)
(* anchored at the end of the path ($) or found anywhere in it.            *)

RegExpEnd(alts) == [kind |-> "RegExp", end |-> TRUE, alts |-> alts]

RegExpAny(alts) == [kind |-> "RegExp", end |-> FALSE, alts |-> alts]

PathPrefix(s) == [kind |-> "string", value |-> s]

appSrc == <<"/", "app", "/", "src">>

scriptRegex ==
    RegExpEnd({ <<".", "js">>, <<".", "mjs">>, <<".", "jsx">>,
                <<".", "ts">>, <<".", "tsx">> })

avifRule ==
    [ test    |-> << RegExpEnd({ <<".", "avif">> }) >>,
      loader  |-> "url-loader",
      options |-> [ limit    |-> consts.imageInlineSizeLimit,
                    mimetype |-> "image/avif",
                    name     |-> "static/media/[name].[hash:8].[ext]" ] ]

imageRule ==
    [ test    |-> << RegExpEnd({ <<".", "bmp">> }),
                     RegExpEnd({ <<".", "gif">> }),
                     RegExpEnd({ <<".", "jpg">>, <<".", "jpeg">> }),
                     RegExpEnd({ <<".", "png">> }) >>,
      loader  |-> "url-loader",
      options |-> [ limit |-> consts.imageInlineSizeLimit,
                    name  |-> "static/media/[name].[hash:8].[ext]" ] ]

appScriptRule(w) ==
    [ test    |-> << scriptRegex >>,
      include |-> << PathPrefix(appSrc) >>,
      loader  |-> "babel-loader",
      options |->
        [ customize |-> "babel-preset-react-app/webpack-overrides",
          presets   |-> << [ preset  |-> "babel-preset-react-app",
                             runtime |-> IF consts.hasJsxRuntime
                                         THEN "automatic" ELSE "classic" ] >>,
          plugins   |-> FilterBoolean(<<
                          [ plugin |-> "babel-plugin-named-asset-import" ],
                          AndThen(isEnvDevelopment(w) /\ shouldUseReactRefresh,
                                  [ plugin |-> "react-refresh/babel" ])
                        >>),
          cacheDirectory   |-> TRUE,
          cacheCompression |-> FALSE,
          compact          |-> isEnvProduction(w) ] ]

depScriptRule ==
    [ test    |-> << RegExpEnd({ <<".", "js">>, <<".", "mjs">> }) >>,
      exclude |-> << RegExpAny({ <<"@babel", "/", "runtime">>,
                                 <<"@babel", "\\", "runtime">>,
                                 <<"@babel", "\\", "\\", "runtime">> }) >>,
      loader  |-> "babel-loader",
      options |->
        [ babelrc          |-> FALSE,
          configFile       |-> FALSE,
          compact          |-> FALSE,
          presets          |-> << [ preset  |-> "babel-preset-react-app/dependencies",
                                    helpers |-> TRUE ] >>,
          cacheDirectory   |-> TRUE,
          cacheCompression |-> FALSE,
          sourceMaps       |-> consts.shouldUseSourceMap,
          inputSourceMap   |-> consts.shouldUseSourceMap ] ]

(* Mutant: the plain CSS rule does not exclude the CSS-module files. *)
cssRule_NoExclude(w) ==
    [ test        |-> << cssRegex >>,
      use         |-> getStyleLoaders(w,
                        [ importLoaders |-> 1, sourceMap |-> StyleSourceMap(w) ],
                        NoPreProcessor),
      sideEffects |-> TRUE ]

cssRule(w) ==
    [ test        |-> << cssRegex >>,
      exclude     |-> << cssModuleRegex >>,
      use         |-> getStyleLoaders(w,
                        [ importLoaders |-> 1, sourceMap |-> StyleSourceMap(w) ],
                        NoPreProcessor),
      sideEffects |-> TRUE ]

cssModuleRule(w) ==
    [ test |-> << cssModuleRegex >>,
      use  |-> getStyleLoaders(w,
                 [ importLoaders |-> 1, sourceMap |-> StyleSourceMap(w),
                   modules |-> [ getLocalIdent |-> "getCSSModuleLocalIdent" ] ],
                 NoPreProcessor) ]

(* Mutant: the plain SASS rule counts two loaders after css-loader. *)
sassRule_ImportLoadersTwo(w) ==
    [ test        |-> << sassRegex >>,
      exclude     |-> << sassModuleRegex >>,
      use         |-> getStyleLoaders(w,
                        [ importLoaders |-> 2, sourceMap |-> StyleSourceMap(w) ],
                        "sass-loader"),
      sideEffects |-> TRUE ]

sassRule(w) ==
    [ test        |-> << sassRegex >>,
      exclude     |-> << sassModuleRegex >>,
      use         |-> getStyleLoaders(w,
                        [ importLoaders |-> 3, sourceMap |-> StyleSourceMap(w) ],
                        "sass-loader"),
      sideEffects |-> TRUE ]

(* Mutant: the SASS-module rule is given the chain of the CSS-module rule. *)
sassModuleRule_NoPreProcessor(w) ==
    [ test |-> << sassModuleRegex >>,
      use  |-> getStyleLoaders(w,
                 [ importLoaders |-> 1, sourceMap |-> StyleSourceMap(w),
                   modules |-> [ getLocalIdent |-> "getCSSModuleLocalIdent" ] ],
                 NoPreProcessor) ]

sassModuleRule(w) ==
    [ test |-> << sassModuleRegex >>,
      use  |-> getStyleLoaders(w,
                 [ importLoaders |-> 3, sourceMap |-> StyleSourceMap(w),
                   modules |-> [ getLocalIdent |-> "getCSSModuleLocalIdent" ] ],
                 "sass-loader") ]

(* Mutant: the file-loader rule excludes nothing. *)
fileRule_NoExclude ==
    [ loader  |-> "file-loader",
      options |-> [ name |-> "static/media/[name].[hash:8].[ext]" ] ]

fileRule ==
    [ loader  |-> "file-loader",
      exclude |-> << scriptRegex,
                     RegExpEnd({ <<".", "html">> }),
                     RegExpEnd({ <<".", "json">> }) >>,
      options |-> [ name |-> "static/media/[name].[hash:8].[ext]" ] ]

(* Mutant: the file-loader rule is written first instead of last. *)
oneOf_FallbackFirst(w) ==
    << fileRule,
       avifRule,
       imageRule,
       appScriptRule(w),
       depScriptRule,
       cssRule(w),
       cssModuleRule(w),
       sassRule(w),
       sassModuleRule(w) >>

oneOf(w) ==
    << avifRule,
       imageRule,
       appScriptRule(w),
       depScriptRule,
       cssRule(w),
       cssModuleRule(w),
       sassRule(w),
       sassModuleRule(w),
       fileRule >>

moduleRules(w) ==
    [ strictExportPresence |-> TRUE,
      rules |-> << [ parser |-> [ requireEnsure |-> FALSE ] ],
                   [ oneOf  |-> oneOf(w) ] >> ]

----------------------------------------------------------------------------
(* mode, devtool, entry, resolve.alias and optimization *)

JsFalse == "false"

mode(w) ==
    IF isEnvProduction(w) THEN "production"
    ELSE IF isEnvDevelopment(w) THEN "development" ELSE JsFalse

(* Mutant: devtool reads GENERATE_SOURCEMAP on every call. *)
devtool_ReadsEnvironment(w) ==
    IF isEnvProduction(w)
    THEN (IF shouldUseSourceMap(env) THEN "source-map" ELSE JsFalse)
    ELSE IF isEnvDevelopment(w) THEN "cheap-module-source-map" ELSE JsFalse

devtool(w) ==
    IF isEnvProduction(w)
    THEN (IF consts.shouldUseSourceMap THEN "source-map" ELSE JsFalse)
    ELSE IF isEnvDevelopment(w) THEN "cheap-module-source-map" ELSE JsFalse

(* Mutant: the alternate dev client is an entry whenever the mode is        *)
(* development.                                                            *)
entry_DevClientInDevelopment(w) ==
    IF isEnvDevelopment(w)
    THEN << "webpackDevClientEntry", "paths.appIndexJs" >>
    ELSE << "paths.appIndexJs" >>

(* A single entry file is the list of that one file. *)
entry(w) ==
    IF isEnvDevelopment(w) /\ ~shouldUseReactRefresh
    THEN << "webpackDevClientEntry", "paths.appIndexJs" >>
    ELSE << "paths.appIndexJs" >>

alias(w) ==
    { "react-native" } \cup
    (IF isEnvProductionProfile(w) THEN { "react-dom$", "scheduler/tracing" } ELSE {})

TerserPlugin(w) ==
    [ plugin        |-> "TerserPlugin",
      terserOptions |->
        [ parse    |-> [ ecma |-> 8 ],
          compress |-> [ ecma |-> 5, warnings |-> FALSE,
                         comparisons |-> FALSE, inline |-> 2 ],
          mangle   |-> [ safari10 |-> TRUE ],
          keep_classnames |-> isEnvProductionProfile(w),
          keep_fnames     |-> isEnvProductionProfile(w),
          output   |-> [ ecma |-> 5, comments |-> FALSE, ascii_only |-> TRUE ] ],
      sourceMap     |-> consts.shouldUseSourceMap ]

OptimizeCSSAssetsPlugin ==
    [ plugin |-> "OptimizeCSSAssetsPlugin",
      cssProcessorOptions |->
        [ parser |-> "safePostCssParser",
          map    |-> IF consts.shouldUseSourceMap
                     THEN [ inline |-> FALSE, annotation |-> TRUE ]
                     ELSE Falsy ],
      cssProcessorPluginOptions |->
        [ preset |-> "default", minifyFontValues |-> [ removeQuotes |-> FALSE ] ] ]

(* Mutant: minimize is switched on in every mode. *)
optimization_AlwaysMinimize(w) ==
    [ minimize     |-> TRUE,
      minimizer    |-> << TerserPlugin(w), OptimizeCSSAssetsPlugin >>,
      splitChunks  |-> [ chunks |-> "all", name |-> FALSE ],
      runtimeChunk |-> [ name |-> "runtime-${entrypoint.name}" ] ]

(* Mutant: the stylesheet minimizer is listed before the script minimizer. *)
optimization_CssMinimizerFirst(w) ==
    [ minimize     |-> isEnvProduction(w),
      minimizer    |-> << OptimizeCSSAssetsPlugin, TerserPlugin(w) >>,
      splitChunks  |-> [ chunks |-> "all", name |-> FALSE ],
      runtimeChunk |-> [ name |-> "runtime-${entrypoint.name}" ] ]

optimization(w) ==
    [ minimize     |-> isEnvProduction(w),
      minimizer    |-> << TerserPlugin(w), OptimizeCSSAssetsPlugin >>,
      splitChunks  |-> [ chunks |-> "all", name |-> FALSE ],
      runtimeChunk |-> [ name |-> "runtime-${entrypoint.name}" ] ]

----------------------------------------------------------------------------
(* plugins: the entries of the array literal, in the order written, and    *)
(* the filter(Boolean) applied to it.                                      *)

HtmlWebpackPluginEntry(w) ==
    [ plugin  |-> "HtmlWebpackPlugin",
      options |-> IF isEnvProduction(w)
                  THEN [ inject |-> TRUE, template |-> "paths.appHtml", minify |-> TRUE ]
                  ELSE [ inject |-> TRUE, template |-> "paths.appHtml" ] ]

(* Mutant: the runtime chunk is inlined whatever the mode. *)
InlineChunkHtmlPluginEntry_AnyMode(w) ==
    AndThen(consts.shouldInlineRuntimeChunk, [ plugin |-> "InlineChunkHtmlPlugin" ])

InlineChunkHtmlPluginEntry(w) ==
    AndThen(isEnvProduction(w) /\ consts.shouldInlineRuntimeChunk,
            [ plugin |-> "InlineChunkHtmlPlugin" ])

InterpolateHtmlPluginEntry == [ plugin |-> "InterpolateHtmlPlugin" ]

ModuleNotFoundPluginEntry == [ plugin |-> "ModuleNotFoundPlugin" ]

DefinePluginEntry == [ plugin |-> "DefinePlugin" ]

(* Mutant: hot module replacement follows the fast-refresh flag, not the mode. *)
HotModuleReplacementPluginEntry_WhenRefresh(w) ==
    AndThen(shouldUseReactRefresh, [ plugin |-> "HotModuleReplacementPlugin" ])

HotModuleReplacementPluginEntry(w) ==
    AndThen(isEnvDevelopment(w), [ plugin |-> "HotModuleReplacementPlugin" ])

ReactRefreshWebpackPluginEntry(w) ==
    AndThen(isEnvDevelopment(w) /\ shouldUseReactRefresh,
            [ plugin  |-> "ReactRefreshWebpackPlugin",
              overlay |-> [ entry  |-> "webpackDevClientEntry",
                            module |-> "reactRefreshOverlayEntry",
                            sockIntegration |-> FALSE ] ])

CaseSensitivePathsPluginEntry(w) ==
    AndThen(isEnvDevelopment(w), [ plugin |-> "CaseSensitivePathsPlugin" ])

WatchMissingNodeModulesPluginEntry(w) ==
    AndThen(isEnvDevelopment(w), [ plugin |-> "WatchMissingNodeModulesPlugin" ])

MiniCssExtractPluginEntry(w) ==
    AndThen(isEnvProduction(w),
            [ plugin        |-> "MiniCssExtractPlugin",
              filename      |-> "static/css/[name].[contenthash:8].css",
              chunkFilename |-> "static/css/[name].[contenthash:8].chunk.css" ])

ManifestPluginEntry ==
    [ plugin |-> "ManifestPlugin", fileName |-> "asset-manifest.json" ]

IgnorePluginEntry == [ plugin |-> "IgnorePlugin" ]

InjectManifestEntry(w) ==
    AndThen(isEnvProduction(w) /\ env.swSrcExists,
            [ plugin |-> "WorkboxWebpackPlugin.InjectManifest" ])

(* Mutant: the type checker runs in production builds only. *)
ForkTsCheckerWebpackPluginEntry_ProductionOnly(w) ==
    AndThen(consts.useTypeScript /\ isEnvProduction(w),
            [ plugin    |-> "ForkTsCheckerWebpackPlugin",
              async     |-> isEnvDevelopment(w),
              checkSyntacticErrors |-> TRUE,
              silent    |-> TRUE,
              formatter |-> "typescriptFormatter" ])

ForkTsCheckerWebpackPluginEntry(w) ==
    AndThen(consts.useTypeScript,
            [ plugin    |-> "ForkTsCheckerWebpackPlugin",
              async     |-> isEnvDevelopment(w),
              checkSyntacticErrors |-> TRUE,
              silent    |-> TRUE,
              formatter |-> IF isEnvProduction(w)
                            THEN "typescriptFormatter" ELSE "undefined" ])

ESLintPluginEntry ==
    [ plugin |-> "ESLintPlugin",
      rules  |-> IF ~consts.hasJsxRuntime
                 THEN { "react/react-in-jsx-scope" } ELSE {} ]

pluginEntries(w) ==
    << HtmlWebpackPluginEntry(w),
       InlineChunkHtmlPluginEntry(w),
       InterpolateHtmlPluginEntry,
       ModuleNotFoundPluginEntry,
       DefinePluginEntry,
       HotModuleReplacementPluginEntry(w),
       ReactRefreshWebpackPluginEntry(w),
       CaseSensitivePathsPluginEntry(w),
       WatchMissingNodeModulesPluginEntry(w),
       MiniCssExtractPluginEntry(w),
       ManifestPluginEntry,
       IgnorePluginEntry,
       InjectManifestEntry(w),
       ForkTsCheckerWebpackPluginEntry(w),
       ESLintPluginEntry >>

(* Mutant: the array literal is returned without filter(Boolean). *)
plugins_Unfiltered(w) == pluginEntries(w)

plugins(w) == FilterBoolean(pluginEntries(w))

(* The object the exported function returns. *)
Config(w) ==
    [ mode         |-> mode(w),
      bail         |-> isEnvProduction(w),
      devtool      |-> devtool(w),
      entry        |-> entry(w),
      optimization |-> optimization(w),
      resolve      |-> [ alias |-> alias(w) ],
      module       |-> moduleRules(w),
      plugins      |-> plugins(w),
      performance  |-> FALSE ]

NoConfig == [ mode |-> "none" ]

----------------------------------------------------------------------------
(* The bundler's lookup of a resource path in the oneOf list: "oneOf will  *)
(* traverse all following loaders until one will match the requirements".  *)

ConditionMatches(c, p) ==
    IF c.kind = "RegExp"
    THEN \E a \in c.alts : IF c.end THEN EndsWith(p, a) ELSE Contains(p, a)
    ELSE StartsWith(p, c.value)

AnyMatches(conditions, p) ==
    \E i \in 1..Len(conditions) : ConditionMatches(conditions[i], p)

(* A rule applies when its test and its include hold and its exclude does  *)
(* not; a missing test is a match.                                         *)
RuleMatches(rule, p) ==
    /\ "test" \in DOMAIN rule => AnyMatches(rule.test, p)
    /\ "include" \in DOMAIN rule => AnyMatches(rule.include, p)
    /\ "exclude" \in DOMAIN rule => ~AnyMatches(rule.exclude, p)

RECURSIVE ScanFrom(_, _, _)
ScanFrom(rules, p, i) ==
    IF i > Len(rules) THEN 0
    ELSE IF RuleMatches(rules[i], p) THEN i
    ELSE ScanFrom(rules, p, i + 1)

OneOfSelect(rules, p) == ScanFrom(rules, p, 1)

(* The resource paths looked up: a directory, the stem "index", up to      *)
(* MaxInfix dotted middle parts and a last extension (or none).            *)
MaxInfix == 1

Dirs ==
    { appSrc \o <<"/">>,
      appSrc \o <<"-legacy", "/">>,
      <<"/", "app", "/", "node_modules", "/", "pkg", "/">>,
      <<"/", "app", "/", "node_modules", "/", "@babel", "/", "runtime", "/", "helpers", "/">>,
      <<"C:", "\\", "app", "\\", "node_modules", "\\", "@babel", "\\", "runtime", "\\">> }

Infixes == { "module" }

Extensions ==
    { "avif", "bmp", "gif", "jpg", "jpeg", "png",
      "js", "mjs", "jsx", "ts", "tsx",
      "css", "scss", "sass", "html", "json", "svg" }

RECURSIVE Dotted(_)
Dotted(parts) ==
    IF parts = <<>> THEN <<>>
    ELSE <<".", Head(parts)>> \o Dotted(Tail(parts))

FileNames ==
    UNION { { <<"index">> \o Dotted(mid) \o last :
                mid \in [1..k -> Infixes],
                last \in { <<>> } \cup { <<".", x>> : x \in Extensions } } :
            k \in 0..MaxInfix }

Paths == { d \o f : d \in Dirs, f \in FileNames }

NoPath == <<>>

NoCall == [called |-> FALSE]

NoStyleCall == [ called |-> FALSE ]

StyleOptions ==
    [ importLoaders : {1, 3}, sourceMap : BOOLEAN ] \cup
    [ importLoaders : {1, 3}, sourceMap : BOOLEAN,
      modules : { [ getLocalIdent |-> "getCSSModuleLocalIdent" ] } ]

PreProcessors == { NoPreProcessor, "sass-loader", "less-loader" }

----------------------------------------------------------------------------
(* Actions *)

(* require() of the module: its top-level code runs once. *)
Load ==
    /\ ~consts.loaded
    /\ consts' = ModuleConstants(env)
    /\ UNCHANGED <<env, webpackEnv, config, path, selected, styleCall, lastCall>>

(* A call of the exported function. The lookups made in the configuration  *)
(* it replaces are forgotten.                                              *)
Assemble(w) ==
    /\ consts.loaded
    /\ webpackEnv' = w
    /\ config' = Config(w)
    /\ path' = NoPath
    /\ selected' = 0
    /\ lastCall' = [called |-> TRUE, env |-> env, consts |-> consts]
    /\ UNCHANGED <<env, consts, styleCall>>

(* The bundler resolves the rule of one resource path. *)
SelectRule(p) ==
    /\ config # NoConfig
    /\ path' = p
    /\ selected' = OneOfSelect(config.module.rules[2].oneOf, p)
    /\ UNCHANGED <<env, consts, webpackEnv, config, styleCall, lastCall>>

(* One call of getStyleLoaders inside a call of the exported function. *)
CallGetStyleLoaders(w, cssOptions, preProcessor) ==
    /\ consts.loaded
    /\ styleCall' = [ called       |-> TRUE,
                      webpackEnv   |-> w,
                      cssOptions   |-> cssOptions,
                      preProcessor |-> preProcessor,
                      loaders      |-> getStyleLoaders(w, cssOptions, preProcessor) ]
    /\ UNCHANGED <<env, consts, webpackEnv, config, path, selected, lastCall>>

(* The process changes one of its facts between two steps of the module:   *)
(* an assignment to process.env, or what ./env reads for FAST_REFRESH.     *)
SetEnv(name, value) ==
    /\ env[name] # value
    /\ env' = [env EXCEPT ![name] = value]
    /\ UNCHANGED <<consts, webpackEnv, config, path, selected, styleCall, lastCall>>

(* The module is loaded again in the process as it is now: a cleared       *)
(* require cache, or a worker that inherits the environment. Its           *)
(* top-level code runs again.                                              *)
Reload ==
    /\ consts.loaded
    /\ consts' = ModuleConstants(env)
    /\ UNCHANGED <<env, webpackEnv, config, path, selected, styleCall, lastCall>>

InitIn(envs) ==
    /\ env \in envs
    /\ consts = NotLoaded
    /\ webpackEnv = "none"
    /\ config = NoConfig
    /\ path = NoPath
    /\ selected = 0
    /\ styleCall = NoStyleCall
    /\ lastCall = NoCall

(* The configuration factory in every process state. *)
Init == InitIn(Envs)

AssembleAny == \E w \in WebpackEnvs : Assemble(w)

Next == Load \/ AssembleAny

Spec == Init /\ [][Next]_vars

(* The factory and the bundler's rule lookup. The matchers read none of    *)
(* the process state, so this specification fixes the variables and files  *)
(* that only the plugin list and the options read.                         *)
RuleEnvs ==
    { e \in Envs :
        /\ e.INLINE_RUNTIME_CHUNK = Undefined
        /\ e.IMAGE_INLINE_SIZE_LIMIT = Undefined
        /\ e.DISABLE_NEW_JSX_TRANSFORM = Undefined
        /\ e.GENERATE_SOURCEMAP # StrTrue
        /\ e.jsxRuntimeResolvable
        /\ ~e.profile /\ ~e.appTsConfigExists /\ ~e.swSrcExists
        /\ e.requiredFilesExist
        /\ e.publicUrlOrPath = <<"/">> }

InitRules == InitIn(RuleEnvs)

SelectAny == \E p \in Paths : SelectRule(p)

NextRules == Load \/ AssembleAny \/ SelectAny

SpecRules == InitRules /\ [][NextRules]_vars

(* getStyleLoaders alone, on any options and preprocessor. *)
StyleEnvs ==
    { e \in Envs :
        /\ e.INLINE_RUNTIME_CHUNK = Undefined
        /\ e.IMAGE_INLINE_SIZE_LIMIT = Undefined
        /\ e.DISABLE_NEW_JSX_TRANSFORM = Undefined
        /\ ~e.FAST_REFRESH /\ ~e.jsxRuntimeResolvable
        /\ ~e.profile /\ ~e.appTsConfigExists /\ ~e.swSrcExists
        /\ e.requiredFilesExist }

InitStyle == InitIn(StyleEnvs)

CallAnyStyle ==
    \E w \in WebpackEnvs, o \in StyleOptions, pre \in PreProcessors :
        CallGetStyleLoaders(w, o, pre)

NextStyle == Load \/ CallAnyStyle

SpecStyle == InitStyle /\ [][NextStyle]_vars

(* The factory in a process whose environment changes while it runs, and   *)
(* in which the module can be loaded more than once. The changes are       *)
(* those of two variables the module reads when it is loaded and of one    *)
(* fact the exported function reads on every call.                         *)
ChangingEnvs ==
    { e \in Envs :
        /\ e.GENERATE_SOURCEMAP # StrTrue
        /\ e.INLINE_RUNTIME_CHUNK # StrTrue
        /\ e.IMAGE_INLINE_SIZE_LIMIT = Undefined
        /\ e.DISABLE_NEW_JSX_TRANSFORM = Undefined
        /\ e.jsxRuntimeResolvable
        /\ ~e.profile /\ ~e.appTsConfigExists /\ ~e.swSrcExists
        /\ e.requiredFilesExist
        /\ e.publicUrlOrPath = <<"/">> }

EnvChanges ==
    ({"GENERATE_SOURCEMAP", "INLINE_RUNTIME_CHUNK"} \X {Undefined, StrFalse})
        \cup ({"FAST_REFRESH"} \X BOOLEAN)

InitEnv == InitIn(ChangingEnvs)

SetEnvAny == \E c \in EnvChanges : SetEnv(c[1], c[2])

NextEnv == Load \/ Reload \/ AssembleAny \/ SetEnvAny

SpecEnv == InitEnv /\ [][NextEnv]_vars

----------------------------------------------------------------------------
(* Properties of the rule lookup (SpecRules) *)

CurrentOneOf == config.module.rules[2].oneOf

(* The indexes of the rules of a list that apply to a path. *)
Matching(rules, p) == { i \in 1..Len(rules) : RuleMatches(rules[i], p) }

Least(S) == CHOOSE i \in S : \A j \in S : i <= j

HasScriptHtmlJsonExtension(p) ==
    \E x \in {"js", "mjs", "jsx", "ts", "tsx", "html", "json"} : EndsWith(p, <<".", x>>)

(* The rule a list selects for a path, Falsy when it selects none. *)
SelectedRule(rules, p) ==
    IF OneOfSelect(rules, p) = 0 THEN Falsy ELSE rules[OneOfSelect(rules, p)]

(* The list with the rules at i and i + 1 exchanged. *)
SwapAdjacent(rules, i) ==
    [ k \in 1..Len(rules) |->
        IF k = i THEN rules[i + 1] ELSE IF k = i + 1 THEN rules[i] ELSE rules[k] ]

(* C1 as stated: every lookup selects exactly one rule, the first of the   *)
(* eight matcher rules that applies, or else the fallback; no path is left *)
(* with no rule. Violated: the fallback excludes script, html and json     *)
(* extensions, so such a path that no earlier rule takes selects nothing.  *)
C1_ExactlyOneRuleSelected ==
    path # NoPath =>
        LET eight == Matching(SubSeq(CurrentOneOf, 1, Len(CurrentOneOf) - 1), path)
        IN  selected = IF eight # {} THEN Least(eight) ELSE Len(CurrentOneOf)

(* C1 as amended: every lookup selects at most one rule, the first rule in *)
(* declared order whose test and include hold and whose exclude does not;  *)
(* the fallback is selected exactly when none of the eight earlier rules   *)
(* applies and the path has no script, html or json extension, and a path  *)
(* with such an extension that no earlier rule takes selects no rule.      *)
C1_FirstMatchOrNone ==
    path # NoPath =>
        LET all   == Matching(CurrentOneOf, path)
            eight == Matching(SubSeq(CurrentOneOf, 1, Len(CurrentOneOf) - 1), path)
        IN  /\ selected = IF all = {} THEN 0 ELSE Least(all)
            /\ selected = Len(CurrentOneOf)
                 <=> (eight = {} /\ ~HasScriptHtmlJsonExtension(path))
            /\ selected = 0
                 <=> (eight = {} /\ HasScriptHtmlJsonExtension(path))

(* A json file of a dependency was looked up and no rule was selected. *)
C1_Witness ==
    /\ path # NoPath
    /\ EndsWith(path, <<".", "json">>)
    /\ selected = 0

(* C2 as stated: for every path at most one of the eight matcher rules     *)
(* applies. Violated: a js or mjs file under the source root satisfies     *)
(* both the application-script rule and the dependency-script rule.        *)
C2_AtMostOneRuleMatches ==
    path # NoPath =>
        Cardinality(Matching(SubSeq(CurrentOneOf, 1, Len(CurrentOneOf) - 1), path)) <= 1

(* C2 as amended: the only two of the eight matcher rules that can apply   *)
(* to the same path are the application-script rule (3rd) and the          *)
(* dependency-script rule (4th); exchanging any two neighbouring rules     *)
(* other than that pair selects the same rule for every path.              *)
C2_OnlyScriptRulesOverlap ==
    path # NoPath =>
        LET eight == Matching(SubSeq(CurrentOneOf, 1, Len(CurrentOneOf) - 1), path)
        IN  /\ Cardinality(eight) <= 1 \/ eight = {3, 4}
            /\ CurrentOneOf[3].include = << PathPrefix(appSrc) >>
            /\ \A i \in (1..(Len(CurrentOneOf) - 2)) \ {3} :
                 SelectedRule(SwapAdjacent(CurrentOneOf, i), path)
                   = SelectedRule(CurrentOneOf, path)

(* A js file under the source root was looked up: both script rules apply  *)
(* and the application-script rule was selected.                           *)
C2_Witness ==
    /\ path # NoPath
    /\ Matching(SubSeq(CurrentOneOf, 1, Len(CurrentOneOf) - 1), path) = {3, 4}
    /\ selected = 3

----------------------------------------------------------------------------
(* Properties of the returned configuration (Spec) *)

Assembled == config # NoConfig

PluginNames == [ i \in 1..Len(config.plugins) |-> config.plugins[i].plugin ]

HasPlugin(name) == \E i \in 1..Len(config.plugins) : config.plugins[i].plugin = name

(* The position of a plugin in the list, 0 when it is absent. *)
PluginIndex(name) ==
    IF HasPlugin(name)
    THEN CHOOSE i \in 1..Len(config.plugins) : config.plugins[i].plugin = name
    ELSE 0

(* The fixed priority order: HTML emission, runtime-chunk inlining,        *)
(* environment interpolation, module-not-found diagnostics, global define, *)
(* hot-module-replacement, fast-refresh, case-sensitivity guard,           *)
(* missing-module watcher, CSS extraction, asset manifest, locale          *)
(* stripping, service-worker injection, type-checking, lint-on-build.      *)
PriorityOrder ==
    << "HtmlWebpackPlugin", "InlineChunkHtmlPlugin", "InterpolateHtmlPlugin",
       "ModuleNotFoundPlugin", "DefinePlugin", "HotModuleReplacementPlugin",
       "ReactRefreshWebpackPlugin", "CaseSensitivePathsPlugin",
       "WatchMissingNodeModulesPlugin", "MiniCssExtractPlugin", "ManifestPlugin",
       "IgnorePlugin", "WorkboxWebpackPlugin.InjectManifest",
       "ForkTsCheckerWebpackPlugin", "ESLintPlugin" >>

(* The enablement of each plugin on the mode and the resolved flags. *)
PluginEnabled(name) ==
    LET development == webpackEnv = "development"
        production  == webpackEnv = "production"
    IN  CASE name = "InlineChunkHtmlPlugin" ->
               production /\ consts.shouldInlineRuntimeChunk
          [] name = "HotModuleReplacementPlugin" -> development
          [] name = "ReactRefreshWebpackPlugin" -> development /\ env.FAST_REFRESH
          [] name = "CaseSensitivePathsPlugin" -> development
          [] name = "WatchMissingNodeModulesPlugin" -> development
          [] name = "MiniCssExtractPlugin" -> production
          [] name = "WorkboxWebpackPlugin.InjectManifest" ->
               production /\ env.swSrcExists
          [] name = "ForkTsCheckerWebpackPlugin" -> consts.useTypeScript
          [] OTHER -> TRUE

(* C3: for every mode and flags the plugin list holds no placeholder and   *)
(* is exactly the subsequence of the fixed priority order made of the      *)
(* enabled plugins, each once and in that order.                           *)
C3_PluginsAreEnabledSubsequence ==
    Assembled =>
        /\ \A i \in 1..Len(config.plugins) : config.plugins[i] # Falsy
        /\ PluginNames = SelectSeq(PriorityOrder, PluginEnabled)
        /\ \A i, j \in 1..Len(config.plugins) :
             i # j => config.plugins[i].plugin # config.plugins[j].plugin

(* A development configuration with fast refresh and no type checker:      *)
(* some entries of the literal were dropped and some optional ones kept.   *)
C3_Witness ==
    /\ Assembled
    /\ webpackEnv = "development"
    /\ HasPlugin("ReactRefreshWebpackPlugin")
    /\ ~HasPlugin("ForkTsCheckerWebpackPlugin")
    /\ Len(config.plugins) < Len(PriorityOrder)

(* C4 as stated: in development the optimization part holds no script      *)
(* minifier, no stylesheet minifier, no chunk-splitting and no runtime     *)
(* chunk extraction. Violated: the object is the same literal in every     *)
(* mode; only minimize follows the mode.                                   *)
C4_DevelopmentHasNoOptimizationStages ==
    (Assembled /\ webpackEnv = "development") =>
        /\ config.optimization.minimizer = <<>>
        /\ "splitChunks" \notin DOMAIN config.optimization
        /\ "runtimeChunk" \notin DOMAIN config.optimization

(* C4 as amended: in development minimization is switched off (minimize is *)
(* false) for every combination of the other flags, so the two minimizers  *)
(* the descriptor lists are not applied; the minimizer list, chunk         *)
(* splitting and runtime-chunk extraction are present as in production.    *)
C4_DevelopmentMinimizeOff ==
    (Assembled /\ webpackEnv = "development") =>
        /\ config.optimization.minimize = FALSE
        /\ Len(config.optimization.minimizer) = 2
        /\ config.optimization.minimizer[1].plugin = "TerserPlugin"
        /\ config.optimization.minimizer[2].plugin = "OptimizeCSSAssetsPlugin"
        /\ config.optimization.splitChunks.chunks = "all"
        /\ "runtimeChunk" \in DOMAIN config.optimization

(* A development configuration was returned; it lists both minimizers. *)
C4_Witness ==
    /\ Assembled
    /\ webpackEnv = "development"
    /\ config.mode = "development"
    /\ Len(config.optimization.minimizer) = 2

(* C5: in production minimization is on, the minimizer list is the script  *)
(* minifier then the stylesheet minifier, and chunk splitting paired with  *)
(* runtime-chunk extraction follows: three stages, nothing else.           *)
C5_ProductionOptimizationStages ==
    (Assembled /\ webpackEnv = "production") =>
        /\ config.optimization.minimize = TRUE
        /\ config.optimization.minimizer # <<>>
        /\ Len(config.optimization.minimizer) = 2
        /\ config.optimization.minimizer[1].plugin = "TerserPlugin"
        /\ config.optimization.minimizer[2].plugin = "OptimizeCSSAssetsPlugin"
        /\ DOMAIN config.optimization
             = {"minimize", "minimizer", "splitChunks", "runtimeChunk"}
        /\ config.optimization.splitChunks = [ chunks |-> "all", name |-> FALSE ]

(* A production configuration was returned with source maps switched off   *)
(* and profiling on.                                                       *)
C5_Witness ==
    /\ Assembled
    /\ webpackEnv = "production"
    /\ ~consts.shouldUseSourceMap
    /\ env.profile
    /\ config.optimization.minimizer[1].terserOptions.keep_fnames

(* C8 as stated: in development with fast refresh and TypeScript, hot      *)
(* module replacement precedes fast refresh and the type checker is the    *)
(* last plugin of the list. Violated: the lint plugin is always enabled    *)
(* and follows the type checker.                                           *)
C8_TypeCheckingIsLast ==
    (Assembled /\ webpackEnv = "development" /\ env.FAST_REFRESH /\ consts.useTypeScript) =>
        /\ HasPlugin("HotModuleReplacementPlugin")
        /\ HasPlugin("ReactRefreshWebpackPlugin")
        /\ PluginIndex("HotModuleReplacementPlugin") < PluginIndex("ReactRefreshWebpackPlugin")
        /\ config.plugins[Len(config.plugins)].plugin = "ForkTsCheckerWebpackPlugin"

(* C8 as amended: in development with fast refresh and TypeScript, hot     *)
(* module replacement precedes fast refresh, and the type checker is the   *)
(* last but one plugin, followed only by the lint-on-build plugin.         *)
C8_TypeCheckingBeforeLint ==
    (Assembled /\ webpackEnv = "development" /\ env.FAST_REFRESH /\ consts.useTypeScript) =>
        /\ HasPlugin("HotModuleReplacementPlugin")
        /\ HasPlugin("ReactRefreshWebpackPlugin")
        /\ PluginIndex("HotModuleReplacementPlugin") < PluginIndex("ReactRefreshWebpackPlugin")
        /\ Len(config.plugins) >= 2
        /\ config.plugins[Len(config.plugins) - 1].plugin = "ForkTsCheckerWebpackPlugin"
        /\ config.plugins[Len(config.plugins)].plugin = "ESLintPlugin"

(* Such a development configuration was returned. *)
C8_Witness ==
    /\ Assembled
    /\ webpackEnv = "development"
    /\ env.FAST_REFRESH
    /\ consts.useTypeScript
    /\ HasPlugin("ForkTsCheckerWebpackPlugin")

(* C9: in production without profiling, whatever the other flags, the      *)
(* list holds none of hot module replacement, fast refresh, the case       *)
(* guard and the missing-module watcher, and holds CSS extraction and the  *)
(* asset manifest.                                                         *)
C9_ProductionPlugins ==
    (Assembled /\ webpackEnv = "production" /\ ~env.profile) =>
        /\ ~HasPlugin("HotModuleReplacementPlugin")
        /\ ~HasPlugin("ReactRefreshWebpackPlugin")
        /\ ~HasPlugin("CaseSensitivePathsPlugin")
        /\ ~HasPlugin("WatchMissingNodeModulesPlugin")
        /\ HasPlugin("MiniCssExtractPlugin")
        /\ HasPlugin("ManifestPlugin")

(* A production configuration without profiling, the fast-refresh flag set. *)
C9_Witness ==
    /\ Assembled
    /\ webpackEnv = "production"
    /\ ~env.profile
    /\ env.FAST_REFRESH
    /\ config.mode = "production"

(* The plugins of the transpiler step of the application-script rule. *)
BabelPlugins ==
    { CurrentOneOf[3].options.plugins[i].plugin :
        i \in 1..Len(CurrentOneOf[3].options.plugins) }

(* C10: the runtime-chunk inlining plugin is present only in production    *)
(* with inlineRuntimeChunk set; the fast-refresh plugin and the            *)
(* fast-refresh transpiler instrumentation are present only in development *)
(* with the fast-refresh flag set.                                         *)
C10_ModeGatedActivation ==
    Assembled =>
        /\ HasPlugin("InlineChunkHtmlPlugin") =>
             (webpackEnv = "production" /\ consts.shouldInlineRuntimeChunk)
        /\ HasPlugin("ReactRefreshWebpackPlugin") =>
             (webpackEnv = "development" /\ env.FAST_REFRESH)
        /\ "react-refresh/babel" \in BabelPlugins =>
             (webpackEnv = "development" /\ env.FAST_REFRESH)

(* A production configuration that inlines the runtime chunk while the     *)
(* fast-refresh flag is set.                                               *)
C10_Witness ==
    /\ Assembled
    /\ webpackEnv = "production"
    /\ env.FAST_REFRESH
    /\ HasPlugin("InlineChunkHtmlPlugin")
    /\ ~HasPlugin("ReactRefreshWebpackPlugin")

----------------------------------------------------------------------------
(* Properties of getStyleLoaders (SpecStyle) *)

(* C6 as stated: in development, with no preprocessor, the chain has       *)
(* exactly 4 steps, style injection first and the postcss step last.       *)
(* Violated: the production-only entry is filtered out, leaving 3.         *)
C6_DevelopmentChainHasFourSteps ==
    (styleCall.called /\ styleCall.webpackEnv = "development"
       /\ ~Truthy(styleCall.preProcessor)) =>
        /\ Len(styleCall.loaders) = 4
        /\ styleCall.loaders[1].loader = "style-loader"
        /\ styleCall.loaders[Len(styleCall.loaders)].loader = "postcss-loader"

(* C6 as amended: in development, for any style options and no             *)
(* preprocessor, the chain has exactly 3 steps, style injection first and  *)
(* the postcss step last.                                                  *)
C6_DevelopmentChainHasThreeSteps ==
    (styleCall.called /\ styleCall.webpackEnv = "development"
       /\ ~Truthy(styleCall.preProcessor)) =>
        /\ Len(styleCall.loaders) = 3
        /\ styleCall.loaders[1] # Falsy
        /\ styleCall.loaders[1].loader = "style-loader"
        /\ styleCall.loaders[Len(styleCall.loaders)].loader = "postcss-loader"

(* getStyleLoaders was called in development with importLoaders 1, no      *)
(* source map and no preprocessor.                                         *)
C6_Witness ==
    /\ styleCall.called
    /\ styleCall.webpackEnv = "development"
    /\ styleCall.preProcessor = NoPreProcessor
    /\ styleCall.cssOptions = [ importLoaders |-> 1, sourceMap |-> FALSE ]

(* C7 as stated: in production, with preprocessor sass, the chain has      *)
(* exactly 6 steps, CSS extraction first, then at the end URL rewriting    *)
(* followed by the sass step. Violated: the development-only entry is      *)
(* filtered out, leaving 5.                                                *)
C7_ProductionSassChainHasSixSteps ==
    (styleCall.called /\ styleCall.webpackEnv = "production"
       /\ styleCall.preProcessor = "sass-loader") =>
        /\ Len(styleCall.loaders) = 6
        /\ styleCall.loaders[1].loader = "MiniCssExtractPlugin.loader"
        /\ styleCall.loaders[5].loader = "resolve-url-loader"
        /\ styleCall.loaders[6].loader = "sass-loader"

(* C7 as amended: in production, for any style options and preprocessor    *)
(* sass, the chain has exactly 5 steps, CSS extraction first, and its last *)
(* two steps are URL rewriting followed by the sass step.                  *)
C7_ProductionSassChainHasFiveSteps ==
    (styleCall.called /\ styleCall.webpackEnv = "production"
       /\ styleCall.preProcessor = "sass-loader") =>
        /\ Len(styleCall.loaders) = 5
        /\ styleCall.loaders[1].loader = "MiniCssExtractPlugin.loader"
        /\ styleCall.loaders[4].loader = "resolve-url-loader"
        /\ styleCall.loaders[5].loader = "sass-loader"

(* getStyleLoaders was called in production with importLoaders 3, a source *)
(* map and sass.                                                           *)
C7_Witness ==
    /\ styleCall.called
    /\ styleCall.webpackEnv = "production"
    /\ styleCall.preProcessor = "sass-loader"
    /\ styleCall.cssOptions = [ importLoaders |-> 3, sourceMap |-> TRUE ]

----------------------------------------------------------------------------
(* Properties of the module constants (Spec) *)

(* A raw value that is a decimal numeral: digits only, at least one. *)
IsNonNegativeInteger(s) ==
    s # <<>> /\ \A i \in 1..Len(s) : DigitValue(s[i]) < 10

(* C11 as stated: the image inlining limit the module resolves is always a *)
(* non-negative integer, 10000 when IMAGE_INLINE_SIZE_LIMIT is absent and  *)
(* 10000 again when it is present but is no non-negative integer, and both *)
(* url-loader rules carry the resolved value as their limit. Violated:     *)
(* the result of parseInt is used as it is, NaN for "abc" and -1 for "-1". *)
C11_LimitIsNonNegativeInteger ==
    /\ consts.loaded =>
        /\ ~consts.imageInlineSizeLimit.nan
        /\ consts.imageInlineSizeLimit.val >= 0
        /\ ~IsNonNegativeInteger(env.IMAGE_INLINE_SIZE_LIMIT) =>
              consts.imageInlineSizeLimit = Num(10000)
    /\ Assembled =>
        /\ CurrentOneOf[1].options.limit = consts.imageInlineSizeLimit
        /\ CurrentOneOf[2].options.limit = consts.imageInlineSizeLimit

----------------------------------------------------------------------------
(* Properties of the pushed preprocessor steps (SpecStyle) *)

(* The last two steps of the chain of the last getStyleLoaders call. *)
UrlRewritingStep == styleCall.loaders[Len(styleCall.loaders) - 1]

PreProcessorStep == styleCall.loaders[Len(styleCall.loaders)]

(* C12 as stated: whenever a preprocessor is given, the URL-rewriting step *)
(* and the preprocessor step both have their source-map option true, in    *)
(* every mode and for both values of the source-map flag. Violated: the    *)
(* URL-rewriting step follows the flag in production.                      *)
C12_BothPushedStepsForceSourceMaps ==
    (styleCall.called /\ Truthy(styleCall.preProcessor)) =>
        /\ UrlRewritingStep.loader = "resolve-url-loader"
        /\ UrlRewritingStep.options.sourceMap = TRUE
        /\ PreProcessorStep.loader = styleCall.preProcessor
        /\ PreProcessorStep.options.sourceMap = TRUE

(* C12 as amended: whenever a preprocessor is given, the preprocessor step *)
(* has its source-map option true whatever the mode and the flag, and the  *)
(* URL-rewriting step, rooted at the source tree, has the source-map flag  *)
(* in production, true in development and false for any other mode.        *)
C12_PreProcessorStepForcesSourceMaps ==
    (styleCall.called /\ Truthy(styleCall.preProcessor)) =>
        /\ UrlRewritingStep.loader = "resolve-url-loader"
        /\ UrlRewritingStep.options.root = "paths.appSrc"
        /\ UrlRewritingStep.options.sourceMap =
              ( IF styleCall.webpackEnv = "production"
                THEN env.GENERATE_SOURCEMAP # StrFalse
                ELSE styleCall.webpackEnv = "development" )
        /\ PreProcessorStep.loader = styleCall.preProcessor
        /\ PreProcessorStep.options.sourceMap = TRUE

(* getStyleLoaders was called in production with sass while               *)
(* GENERATE_SOURCEMAP is 'false': the two pushed steps differ.             *)
C12_Witness ==
    /\ styleCall.called
    /\ styleCall.webpackEnv = "production"
    /\ styleCall.preProcessor = "sass-loader"
    /\ env.GENERATE_SOURCEMAP = StrFalse
    /\ ~UrlRewritingStep.options.sourceMap
    /\ PreProcessorStep.options.sourceMap

----------------------------------------------------------------------------
(* Properties of the assembled rule list (Spec) *)

HasMatcher(rule) == "test" \in DOMAIN rule

(* The loaders a rule applies: its use list, or its single loader. *)
Steps(rule) ==
    IF "use" \in DOMAIN rule THEN rule.use
    ELSE IF "loader" \in DOMAIN rule THEN << [loader |-> rule.loader] >>
    ELSE << >>

(* C13: in the oneOf list of every assembled configuration, every rule but *)
(* the last has a matcher (test) and at least one step, and the rule with  *)
(* no matcher, the file-loader fallback, occurs exactly once, as the last  *)
(* element.                                                                *)
C13_OnlyLastRuleHasNoMatcher ==
    Assembled =>
        LET rules == CurrentOneOf
        IN  /\ \A i \in 1..Len(rules) : HasMatcher(rules[i]) <=> i # Len(rules)
            /\ Cardinality({ i \in 1..Len(rules) : ~HasMatcher(rules[i]) }) = 1
            /\ \A i \in 1..(Len(rules) - 1) : Steps(rules[i]) # << >>
            /\ rules[Len(rules)].loader = "file-loader"

(* A configuration was assembled for a mode that is neither development    *)
(* nor production, where the style chains are at their shortest: nine      *)
(* rules, the ninth without a test.                                        *)
C13_Witness ==
    /\ Assembled
    /\ webpackEnv = "test"
    /\ Len(CurrentOneOf) = 9
    /\ Len(CurrentOneOf[5].use) = 2
    /\ ~HasMatcher(CurrentOneOf[9])

CssLoaderIndex(use) == CHOOSE i \in 1..Len(use) : use[i].loader = "css-loader"

(* The SASS-module rule (8th) has the chain of the plain SASS rule (7th):  *)
(* importLoaders 3, sass as the preprocessor, every step equal but         *)
(* css-loader, whose options are those of the plain rule plus the modules  *)
(* option; and it does not exclude the module-suffixed files.              *)
SassModuleChainIsSassChainPlusModules ==
    LET plain  == CurrentOneOf[7]
        module == CurrentOneOf[8]
        k      == CssLoaderIndex(plain.use)
    IN  /\ plain.test = << sassRegex >>
        /\ plain.exclude = << sassModuleRegex >>
        /\ module.test = << sassModuleRegex >>
        /\ "exclude" \notin DOMAIN module
        /\ Len(module.use) = Len(plain.use)
        /\ \A i \in 1..Len(plain.use) : i # k => module.use[i] = plain.use[i]
        /\ plain.use[Len(plain.use)].loader = "sass-loader"
        /\ module.use[k].loader = "css-loader"
        /\ DOMAIN plain.use[k].options = {"importLoaders", "sourceMap"}
        /\ DOMAIN module.use[k].options = {"importLoaders", "sourceMap", "modules"}
        /\ plain.use[k].options.importLoaders = 3
        /\ module.use[k].options.importLoaders = 3
        /\ module.use[k].options.sourceMap = plain.use[k].options.sourceMap
        /\ module.use[k].options.modules = [ getLocalIdent |-> "getCSSModuleLocalIdent" ]

(* C14 as stated: the SASS-module rule is the plain SASS rule plus the     *)
(* local-identifier strategy, sideEffects = true on the rule included.     *)
(* Violated: the SASS-module rule has no sideEffects key.                  *)
C14_SassModuleRuleHasSideEffects ==
    Assembled =>
        /\ SassModuleChainIsSassChainPlusModules
        /\ CurrentOneOf[7].sideEffects = TRUE
        /\ "sideEffects" \in DOMAIN CurrentOneOf[8]
        /\ CurrentOneOf[8].sideEffects = TRUE

(* C14 as amended: the SASS-module rule has the chain of the plain SASS    *)
(* rule plus the local-identifier strategy, and differs from it by the     *)
(* modules option, by excluding nothing, and by carrying no sideEffects    *)
(* flag, which only the plain rule sets to true.                           *)
C14_SassModuleRuleWithoutSideEffects ==
    Assembled =>
        /\ SassModuleChainIsSassChainPlusModules
        /\ CurrentOneOf[7].sideEffects = TRUE
        /\ "sideEffects" \notin DOMAIN CurrentOneOf[8]

(* A production configuration: both SASS chains have five steps. *)
C14_Witness ==
    /\ Assembled
    /\ webpackEnv = "production"
    /\ Len(CurrentOneOf[7].use) = 5
    /\ Len(CurrentOneOf[8].use) = 5
    /\ CurrentOneOf[8].use[2].options.modules = [ getLocalIdent |-> "getCSSModuleLocalIdent" ]

----------------------------------------------------------------------------
(* Properties of the mode and of what a call returns (Spec) *)

(* The rules of the oneOf list whose loaders getStyleLoaders builds. *)
StyleRules == 5..8

ChainHas(i, loader) ==
    \E j \in 1..Len(CurrentOneOf[i].use) : CurrentOneOf[i].use[j].loader = loader

(* C15 as stated: whatever value the caller passes as the mode selector,   *)
(* exactly one of development and production is active, the mode field of  *)
(* the configuration is 'development' or 'production', and every style     *)
(* chain starts with the style-injection step or with the CSS-extraction   *)
(* step. Violated: for any other selector value neither mode is active,    *)
(* mode is false and the chains start with css-loader.                     *)
C15_ModeIsDevelopmentOrProduction ==
    Assembled =>
        /\ isEnvDevelopment(webpackEnv) # isEnvProduction(webpackEnv)
        /\ config.mode \in {"development", "production"}
        /\ \A i \in StyleRules :
              CurrentOneOf[i].use[1].loader \in
                  {"style-loader", "MiniCssExtractPlugin.loader"}

(* C16 as stated: a call returns no configuration when the HTML template   *)
(* or the entry file it names is missing, or when the configuration would  *)
(* break an invariant of the data model (here: its mode is one of the two  *)
(* modes). Violated: the function checks nothing and always returns.       *)
C16_NoDescriptorWhenInvalid ==
    Assembled =>
        /\ config.plugins[1].options.template = "paths.appHtml"
        /\ config.entry[Len(config.entry)] = "paths.appIndexJs"
        /\ lastCall.env.requiredFilesExist
        /\ config.mode \in {"development", "production"}

(* C18: the fast-refresh plugin is in the plugin list exactly when the     *)
(* mode is development and FAST_REFRESH is set; the alternate dev client   *)
(* is an entry exactly when the mode is development and FAST_REFRESH is    *)
(* not set; so the two exclude each other and in development one of them   *)
(* is present; and babel's react-refresh instrumentation is present        *)
(* exactly when the plugin is.                                             *)
C18_FastRefreshXorDevClient ==
    Assembled =>
        LET plugin    == HasPlugin("ReactRefreshWebpackPlugin")
            devClient == \E i \in 1..Len(config.entry) :
                            config.entry[i] = "webpackDevClientEntry"
        IN  /\ plugin <=> (webpackEnv = "development" /\ env.FAST_REFRESH)
            /\ devClient <=> (webpackEnv = "development" /\ ~env.FAST_REFRESH)
            /\ ~(plugin /\ devClient)
            /\ webpackEnv = "development" => (plugin \/ devClient)
            /\ ("react-refresh/babel" \in BabelPlugins) <=> plugin

(* A development configuration without FAST_REFRESH: the dev client is the *)
(* first entry and the plugin is absent.                                   *)
C18_Witness ==
    /\ Assembled
    /\ webpackEnv = "development"
    /\ ~env.FAST_REFRESH
    /\ config.entry = << "webpackDevClientEntry", "paths.appIndexJs" >>
    /\ ~HasPlugin("ReactRefreshWebpackPlugin")

(* C19 as stated: in every assembled configuration the chain of each of    *)
(* the four style rules contains the CSS-extraction step exactly when      *)
(* MiniCssExtractPlugin is in the plugin list, and the style-injection     *)
(* step exactly when that plugin is absent. Violated for a mode that is    *)
(* neither development nor production: no plugin and no style-loader.      *)
C19_ExtractionStepIffExtractionPlugin ==
    Assembled =>
        \A i \in StyleRules :
            /\ ChainHas(i, "MiniCssExtractPlugin.loader")
                  <=> HasPlugin("MiniCssExtractPlugin")
            /\ ChainHas(i, "style-loader") <=> ~HasPlugin("MiniCssExtractPlugin")

(* C20: in each of the four style rules, in every mode, the importLoaders  *)
(* option of css-loader is the number of steps that follow css-loader in   *)
(* the chain, 1 for the two CSS rules and 3 for the two SASS rules, and    *)
(* css-loader has the options the rule was written with: importLoaders,    *)
(* the source-map flag of the mode, and modules for the module rules only. *)
C20_ImportLoadersCountsLaterSteps ==
    Assembled =>
        \A i \in StyleRules :
            LET use == CurrentOneOf[i].use
                k   == CssLoaderIndex(use)
            IN  /\ ChainHas(i, "css-loader")
                /\ use[k].options.importLoaders = Len(use) - k
                /\ use[k].options.importLoaders = (IF i \in {5, 6} THEN 1 ELSE 3)
                /\ use[k].options.sourceMap =
                      ( IF webpackEnv = "production"
                        THEN consts.shouldUseSourceMap
                        ELSE webpackEnv = "development" )
                /\ DOMAIN use[k].options =
                      ( IF i \in {6, 8}
                        THEN {"importLoaders", "sourceMap", "modules"}
                        ELSE {"importLoaders", "sourceMap"} )
                /\ i \in {6, 8} =>
                      use[k].options.modules =
                          [ getLocalIdent |-> "getCSSModuleLocalIdent" ]

(* A production configuration: css-loader is the second of the five steps  *)
(* of the plain SASS rule, with importLoaders 3.                           *)
C20_Witness ==
    /\ Assembled
    /\ webpackEnv = "production"
    /\ Len(CurrentOneOf[7].use) = 5
    /\ CurrentOneOf[7].use[2].loader = "css-loader"
    /\ CurrentOneOf[7].use[2].options.importLoaders = 3

----------------------------------------------------------------------------
(* Properties of successive calls in a changing process (SpecEnv) *)

(* What the exported function reads from the process on every call. *)
CallTimeFacts(e) ==
    [ FAST_REFRESH    |-> e.FAST_REFRESH,
      profile         |-> e.profile,
      swSrcExists     |-> e.swSrcExists,
      publicUrlOrPath |-> e.publicUrlOrPath ]

====
